---- MODULE Spec2Model ----
(***************************************************************************)
(* Line-change tracker of obsidian-local-history: TrackerLine,             *)
(* FileSnapshot (tracker collection, shift engine, change map) and the     *)
(* ChangeDetectorExtension that applies CodeMirror change sets to it.      *)
(*                                                                         *)
(* A document is a sequence of characters; a line is a sequence of         *)
(* characters without the line break.  The TrackerLine fields `original`,  *)
(* `current` and `addedTimeStamp` are written but never read by any code   *)
(* path and are left out of the tracker record.                            *)
(***************************************************************************)
EXTENDS Integers, Sequences, FiniteSets, TLC

\* ------------------------------------------------------------------ bounds
\* longest document, in characters
MaxDocLen == 3
\* longest inserted text
MaxInsLen == 2
\* longest original document of the runs of multi-tuple transactions
MaxOrigLen == 1
\* longest original document of the runs of recorded single-tuple
\* transactions and of direct calls
MaxSingleOrigLen == 2
\* number of transactions of a run
MaxEdits == 2
\* last value of the millisecond clock (it starts at 0)
MaxClock == 1
\* number of direct calls on a snapshot
MaxOps == 3

\* largest offset of a direct shiftUp / shiftDown call
MaxShift == 1

\* largest line number passed as the start of a direct shiftUp call
MaxShiftPos == 2

\* number of direct shift calls made on one snapshot
MaxShiftOps == 2

\* number of capture calls for one file that wait for vault.read at once
MaxPending == 2

\* number of snapshots the registry creates in one run
MaxSnapshots == 3

\* number of events (handler runs, workspace changes) in one run
MaxEvents == 4

\* number of direct calls in one run of moveTo / remove / restore
MaxMoveOps == 2

\* -------------------------------------------------------------- characters
NL == "\n"
Letters == {"a"}
Chars == Letters \cup {NL}

\* String.prototype.charCodeAt for the characters of the model
charCodeAt(c) == CASE c = "a" -> 97 [] c = "b" -> 98 [] OTHER -> 10

\* the signed 32-bit integer with the 16-bit halves <<hi, lo>>
ToInt32(h) ==
  IF h[1] >= 32768 THEN ((h[1] - 65536) * 65536) + h[2] ELSE (h[1] * 65536) + h[2]

\* the values h for which h * 31 + code stays inside 32 bits
SafeHash == (2147483647 - 65535) \div 31

\* One round of TextHelper.hash on the signed 32-bit value h:
\* hash = ((hash << 5) - hash) + code; hash |= 0.  TLC integers are 32 bits
\* wide, so a round that overflows is computed on 16-bit halves.
hashStep(h, code) ==
  IF h >= -SafeHash /\ h <= SafeHash THEN (h * 31) + code
  ELSE LET lo == ((h % 65536) * 31) + code
           hi == (((h \div 65536) % 65536) * 31) + (lo \div 65536)
       IN  ToInt32(<<hi % 65536, lo % 65536>>)

Abs(x) == IF x < 0 THEN -x ELSE x

RECURSIVE hashFrom(_, _, _)
hashFrom(content, i, h) ==
  IF i > Len(content) THEN h
  ELSE hashFrom(content, i + 1, hashStep(h, charCodeAt(content[i])))

\* TextHelper.hash: the decimal string of |h| is represented by the number |h|
hash(content) == Abs(hashFrom(content, 1, 0))

\* the null hash of a tracker constructed without content
NullHash == -1

\* all sequences over S of length 0..n
RECURSIVE SeqsUpTo(_, _)
SeqsUpTo(S, n) ==
  IF n = 0 THEN {<<>>}
  ELSE LET shorter == SeqsUpTo(S, n - 1)
       IN  shorter \cup {Append(s, c) : s \in {t \in shorter : Len(t) = n - 1}, c \in S}

\* the array with the elements f[1], ..., f[n], each computed once
Array(f, n) == SubSeq(f, 1, n)

\* String.prototype.split(lineBreak): always at least one (possibly empty) line
RECURSIVE splitFrom(_, _, _, _)
splitFrom(s, i, cur, acc) ==
  IF i > Len(s) THEN Append(acc, cur)
  ELSE IF s[i] = NL THEN splitFrom(s, i + 1, <<>>, Append(acc, cur))
       ELSE splitFrom(s, i + 1, Append(cur, s[i]), acc)

split(s) == splitFrom(s, 1, <<>>, <<>>)

\* Array.prototype.join(lineBreak)
RECURSIVE join(_)
join(ls) ==
  IF Len(ls) = 0 THEN <<>>
  ELSE IF Len(ls) = 1 THEN ls[1]
       ELSE ls[1] \o <<NL>> \o join(Tail(ls))

\* Text.lineAt(pos).number - 1: the number of line breaks before offset pos
RECURSIVE lineAt(_, _)
lineAt(s, pos) ==
  IF pos = 0 THEN 0
  ELSE lineAt(s, pos - 1) + (IF s[pos] = NL THEN 1 ELSE 0)

\* Text.lines of a text given as a string
textLines(s) == Len(split(s))

\* ------------------------------------------------------------- TrackerLine
\* an omitted optional numeric argument
Undefined == -1000

\* a content argument that is not a string (undefined)
NoContent == <<"undefined">>

TrackerLine(id, content, originalPosition, currentPosition, contentSameOriginal) ==
  [ id |-> id,
    originalPosition |-> originalPosition,
    currentPosition |-> currentPosition,
    removedAtPosition |-> -1,
    changeAtPosition |-> -1,
    contentSameOriginal |-> (contentSameOriginal /\ originalPosition # -1 /\ content # NoContent),
    hash |-> IF content = NoContent THEN NullHash ELSE hash(content),
    removedTimeStamp |-> -1,
    changedTimeStamp |-> -1 ]

wasExplicitlyRemoved(t) == t.removedAtPosition # -1
wasExplicitlyChanged(t) == t.changeAtPosition # -1
existedInOriginal(t) == t.originalPosition # -1
existedInCurrent(t) == t.currentPosition # -1

isStateGhost(t) == ~existedInOriginal(t) /\ ~existedInCurrent(t) /\ wasExplicitlyRemoved(t)
isStateRemoved(t) == ~existedInCurrent(t) /\ existedInOriginal(t) /\ wasExplicitlyRemoved(t)
isStateRemovedAt(t, line) ==
  ~existedInCurrent(t) /\ existedInOriginal(t) /\ t.removedAtPosition = line
isStateAdded(t) == ~existedInOriginal(t) /\ ~wasExplicitlyRemoved(t) /\ existedInCurrent(t)
\* isStateChanged without the existedInOriginal test
isStateChanged_anyOrigin(t) ==
  /\ existedInCurrent(t)
  /\ ~t.contentSameOriginal
  /\ ~wasExplicitlyRemoved(t)
  /\ wasExplicitlyChanged(t)

isStateChanged(t) ==
  /\ existedInOriginal(t)
  /\ existedInCurrent(t)
  /\ ~t.contentSameOriginal
  /\ ~wasExplicitlyRemoved(t)
  /\ wasExplicitlyChanged(t)
isStateOriginal(t) == existedInOriginal(t) /\ t.contentSameOriginal /\ ~wasExplicitlyRemoved(t)
isStateRestored(t) == t.contentSameOriginal /\ ~wasExplicitlyRemoved(t) /\ wasExplicitlyChanged(t)

\* JavaScript `!to` for an optional number: undefined and 0 are both falsy
Falsy(to) == to = Undefined \/ to = 0

isCurrentAt(t, line) == t.currentPosition = line
isCurrentGT(t, line) == t.currentPosition > line
isCurrentLT(t, line) == t.currentPosition < line
getCurrentPositionOffset(t, line) == line - t.currentPosition
isOriginAt(t, line) == t.originalPosition = line
isOriginalInRange(t, from, to) ==
  t.originalPosition >= from /\ (Falsy(to) \/ t.originalPosition <= to)
isCurrentInRange(t, from, to) ==
  t.currentPosition >= from /\ (Falsy(to) \/ t.currentPosition <= to)
isRemoveInRange(t, from, to) ==
  t.removedAtPosition >= from /\ (Falsy(to) \/ t.removedAtPosition <= to)

TrackerLine_moveTo(t, line) ==
  IF ~existedInCurrent(t) THEN t
  ELSE [t EXCEPT !.currentPosition = line, !.changeAtPosition = line]

\* restore() leaving the removal stamp behind
TrackerLine_restore_keepStamp(t, line) ==
  IF ~existedInOriginal(t) THEN t
  ELSE LET pos == IF line = Undefined THEN t.removedAtPosition ELSE line
       IN  [t EXCEPT !.currentPosition = pos,
                     !.changeAtPosition = pos,
                     !.removedAtPosition = -1]

TrackerLine_restore(t, line) ==
  IF ~existedInOriginal(t) THEN t
  ELSE LET pos == IF line = Undefined THEN t.removedAtPosition ELSE line
       IN  [t EXCEPT !.currentPosition = pos,
                     !.changeAtPosition = pos,
                     !.removedAtPosition = -1,
                     !.removedTimeStamp = -1]

\* remove() without the test for an earlier removal
TrackerLine_remove_again(t, line, time) ==
  [t EXCEPT !.removedAtPosition = IF line = Undefined THEN t.currentPosition ELSE line,
            !.currentPosition = -1,
            !.removedTimeStamp = time]

TrackerLine_remove(t, line, time) ==
  IF wasExplicitlyRemoved(t) THEN t
  ELSE [t EXCEPT !.removedAtPosition = IF line = Undefined THEN t.currentPosition ELSE line,
                 !.currentPosition = -1,
                 !.removedTimeStamp = time]

\* change() returning early on an equal hash alone, whatever contentSameOriginal
TrackerLine_change_hashOnly(t, content, line, time) ==
  IF content = NoContent \/ ~existedInCurrent(t) THEN t
  ELSE IF hash(content) = t.hash THEN t
  ELSE [t EXCEPT !.contentSameOriginal = (t.hash = hash(content)),
                 !.changeAtPosition = IF line = Undefined THEN t.currentPosition ELSE line,
                 !.changedTimeStamp = time]

TrackerLine_change(t, content, line, time) ==
  IF content = NoContent \/ ~existedInCurrent(t) THEN t
  ELSE IF t.contentSameOriginal /\ hash(content) = t.hash THEN t
  ELSE [t EXCEPT !.contentSameOriginal = (t.hash = hash(content)),
                 !.changeAtPosition = IF line = Undefined THEN t.currentPosition ELSE line,
                 !.changedTimeStamp = time]

TrackerLine_shiftUp(t, offset) ==
  LET off == IF offset = Undefined THEN 1 ELSE offset
      t1 == IF existedInCurrent(t) THEN [t EXCEPT !.currentPosition = @ + off] ELSE t
  IN  IF existedInOriginal(t1) /\ wasExplicitlyRemoved(t1)
      THEN [t1 EXCEPT !.removedAtPosition = @ + off] ELSE t1

TrackerLine_shiftDown(t, offset) ==
  LET off == IF offset = Undefined THEN 1 ELSE offset
      t1 == IF existedInCurrent(t) THEN [t EXCEPT !.currentPosition = @ - off] ELSE t
  IN  IF existedInOriginal(t1) /\ wasExplicitlyRemoved(t1)
      THEN [t1 EXCEPT !.removedAtPosition = @ - off] ELSE t1

\* ------------------------------------------------------------ FileSnapshot
\* The tracker collection is the array FileSnapshot.tracker, a sequence of
\* tracker records.  getTracker() copies it and sorts the copy with a
\* comparator whose default direction 'acs' matches no case, so the default
\* order is the array order; only ['removedTimeStamp', 'dsc'] reorders.

\* insertion of index i into a list of indices sorted by removedTimeStamp,
\* descending, after every element that does not compare greater (stable)
RECURSIVE insertDsc(_, _, _)
insertDsc(tr, sorted, i) ==
  IF sorted = <<>> THEN <<i>>
  ELSE IF tr[i].removedTimeStamp > tr[Head(sorted)].removedTimeStamp
       THEN <<i>> \o sorted
       ELSE <<Head(sorted)>> \o insertDsc(tr, Tail(sorted), i)

RECURSIVE sortDscFrom(_, _, _)
sortDscFrom(tr, i, sorted) ==
  IF i > Len(tr) THEN sorted
  ELSE sortDscFrom(tr, i + 1, insertDsc(tr, sorted, i))

\* getTracker({ ordering: ['removedTimeStamp', 'dsc'] }) as the indices of the array
getTrackerDsc(tr) == sortDscFrom(tr, 1, <<>>)

\* Array.prototype.find over a list of indices: first index whose tracker
\* satisfies P, 0 for "not found" (null)
findFirst(tr, order, P(_)) ==
  LET hits == {k \in 1..Len(order) : P(tr[order[k]])}
  IN  IF hits = {} THEN 0
      ELSE order[CHOOSE k \in hits : \A m \in hits : k <= m]

Indices(tr) == Array([i \in 1..Len(tr) |-> i], Len(tr))

findCurrentLine(tr, line, to) ==
  LET P(t) == isCurrentAt(t, line) /\ isCurrentInRange(t, 0, to)
  IN  findFirst(tr, Indices(tr), P)

findOriginalLine(tr, line, to, visible) ==
  LET P(t) == /\ (IF visible THEN isCurrentAt(t, line) ELSE isOriginAt(t, line))
              /\ existedInOriginal(t)
              /\ isOriginalInRange(t, 0, to)
  IN  findFirst(tr, Indices(tr), P)

findRemovedAt(tr, line) ==
  LET P(t) == isStateRemovedAt(t, line)
  IN  findFirst(tr, getTrackerDsc(tr), P)

\* shiftUp starting one line too late
shiftUp_afterLine(tr, line, to, offset) ==
  Array([i \in 1..Len(tr) |->
           IF isCurrentInRange(tr[i], line + 1, to) THEN TrackerLine_shiftUp(tr[i], offset) ELSE tr[i]], Len(tr))

shiftUp(tr, line, to, offset) ==
  Array([i \in 1..Len(tr) |->
           IF isCurrentInRange(tr[i], line, to) THEN TrackerLine_shiftUp(tr[i], offset) ELSE tr[i]], Len(tr))

shiftUpRemoved(tr, line, to, offset) ==
  Array([i \in 1..Len(tr) |->
           IF isRemoveInRange(tr[i], line, to) THEN TrackerLine_shiftUp(tr[i], offset) ELSE tr[i]], Len(tr))

shiftDown_belowTo(tr, line, to, offset) ==
  Array([i \in 1..Len(tr) |->
           IF tr[i].currentPosition >= line /\ (Falsy(to) \/ tr[i].currentPosition < to)
           THEN TrackerLine_shiftDown(tr[i], offset) ELSE tr[i]], Len(tr))

shiftDown(tr, line, to, offset) ==
  Array([i \in 1..Len(tr) |->
           IF isCurrentInRange(tr[i], line, to) THEN TrackerLine_shiftDown(tr[i], offset) ELSE tr[i]], Len(tr))

shiftDownRemoved_fromZero(tr, line, to, offset) ==
  Array([i \in 1..Len(tr) |->
           IF isRemoveInRange(tr[i], 0, to) THEN TrackerLine_shiftDown(tr[i], offset) ELSE tr[i]], Len(tr))

shiftDownRemoved(tr, line, to, offset) ==
  Array([i \in 1..Len(tr) |->
           IF isRemoveInRange(tr[i], line, to) THEN TrackerLine_shiftDown(tr[i], offset) ELSE tr[i]], Len(tr))

\* A collection value: the tracker array, the next fresh id (TextHelper.rndId
\* never repeats) and the id of the tracker the last call returned (0 = null)
Coll(tr, nid, ret) == [tr |-> tr, nid |-> nid, ret |-> ret]

addTrackerLine(c, currentPosition) ==
  Coll(Append(c.tr, TrackerLine(c.nid, NoContent, -1, currentPosition, FALSE)), c.nid + 1, c.nid)

\* removeTrackerLine(tracker): findIndex by isEq (same id), then splice
removeTrackerLine(tr, id) ==
  LET P(t) == t.id = id
      k == findFirst(tr, Indices(tr), P)
  IN  IF k = 0 THEN tr
      ELSE SubSeq(tr, 1, k - 1) \o SubSeq(tr, k + 1, Len(tr))

restoreOrAddTracker_noShiftRemoved(c, line, shift) ==
  LET removed == findRemovedAt(c.tr, line)
      index == line
      t1 == IF shift THEN shiftUp(c.tr, index, Undefined, Undefined) ELSE c.tr
      t2 == IF removed # 0
            THEN [t1 EXCEPT ![removed] = TrackerLine_restore(t1[removed], index)]
            ELSE t1
  IN  IF removed # 0 THEN Coll(t2, c.nid, t2[removed].id)
      ELSE addTrackerLine(Coll(t2, c.nid, 0), index)

restoreOrAddTracker(c, line, shift) ==
  LET removed == findRemovedAt(c.tr, line)
      index == line
      t1 == IF shift THEN shiftUp(c.tr, index, Undefined, Undefined) ELSE c.tr
      t2 == IF removed # 0
            THEN [t1 EXCEPT ![removed] = TrackerLine_restore(t1[removed], index)]
            ELSE t1
      t3 == IF shift THEN shiftUpRemoved(t2, index, Undefined, Undefined) ELSE t2
  IN  IF removed # 0 THEN Coll(t3, c.nid, t3[removed].id)
      ELSE addTrackerLine(Coll(t3, c.nid, 0), index)

\* removeTrackerOrLine shifting before it tests whether a tracker was found
removeTrackerOrLine_shiftFirst(c, line, shift, time) ==
  LET k == findCurrentLine(c.tr, line, Undefined)
      index == line
      t1 == IF shift THEN shiftDown(c.tr, index + 1, Undefined, Undefined) ELSE c.tr
      t2 == IF shift THEN shiftDownRemoved(t1, index + 1, Undefined, Undefined) ELSE t1
  IN  IF k = 0 THEN Coll(t2, c.nid, 0)
      ELSE IF existedInOriginal(c.tr[k])
           THEN Coll([t2 EXCEPT ![k] = TrackerLine_remove(t2[k], Undefined, time)],
                     c.nid, c.tr[k].id)
           ELSE Coll(removeTrackerLine(t2, c.tr[k].id), c.nid, c.tr[k].id)

\* removeTrackerOrLine marking every tracker removed, also one of an added line
removeTrackerOrLine_removeAll(c, line, shift, time) ==
  LET k == findCurrentLine(c.tr, line, Undefined)
      index == line
      t1 == IF shift THEN shiftDown(c.tr, index + 1, Undefined, Undefined) ELSE c.tr
      t2 == IF shift THEN shiftDownRemoved(t1, index + 1, Undefined, Undefined) ELSE t1
  IN  IF k = 0 THEN Coll(c.tr, c.nid, 0)
      ELSE Coll([t2 EXCEPT ![k] = TrackerLine_remove(t2[k], Undefined, time)], c.nid, c.tr[k].id)

removeTrackerOrLine_spliceAll(c, line, shift, time) ==
  LET k == findCurrentLine(c.tr, line, Undefined)
      index == line
      t1 == IF shift THEN shiftDown(c.tr, index + 1, Undefined, Undefined) ELSE c.tr
      t2 == IF shift THEN shiftDownRemoved(t1, index + 1, Undefined, Undefined) ELSE t1
  IN  IF k = 0 THEN Coll(c.tr, c.nid, 0)
      ELSE Coll(removeTrackerLine(t2, c.tr[k].id), c.nid, c.tr[k].id)

removeTrackerOrLine(c, line, shift, time) ==
  LET k == findCurrentLine(c.tr, line, Undefined)
      index == line
      t1 == IF shift THEN shiftDown(c.tr, index + 1, Undefined, Undefined) ELSE c.tr
      t2 == IF shift THEN shiftDownRemoved(t1, index + 1, Undefined, Undefined) ELSE t1
  IN  IF k = 0 THEN Coll(c.tr, c.nid, 0)
      ELSE IF existedInOriginal(c.tr[k])
           THEN Coll([t2 EXCEPT ![k] = TrackerLine_remove(t2[k], Undefined, time)],
                     c.nid, c.tr[k].id)
           ELSE Coll(removeTrackerLine(t2, c.tr[k].id), c.nid, c.tr[k].id)

\* moveTo(line, position): the offset position - currentPosition is passed
\* as the second argument (`to`) of shiftUp / shiftDown
moveTo(c, line, position) ==
  LET k == findCurrentLine(c.tr, line, Undefined)
      t1 == IF isCurrentLT(c.tr[k], position)
            THEN shiftUp(c.tr, line, getCurrentPositionOffset(c.tr[k], position), Undefined)
            ELSE c.tr
      t2 == IF isCurrentGT(t1[k], position)
            THEN shiftDown(t1, line, getCurrentPositionOffset(t1[k], position), Undefined)
            ELSE t1
  IN  IF k = 0 THEN Coll(c.tr, c.nid, 0)
      ELSE IF isCurrentAt(c.tr[k], position) THEN Coll(c.tr, c.nid, c.tr[k].id)
      ELSE Coll([t2 EXCEPT ![k] = TrackerLine_moveTo(t2[k], position)], c.nid, c.tr[k].id)

\* ChangeLine.add: append the tag unless already present
ChangeLine_add(types, type) ==
  IF \E i \in 1..Len(types) : types[i] = type THEN types ELSE Append(types, type)

\* the tag updateChanges adds for a tracker ("" when it adds none)
tagOf(t) ==
  IF isStateRemoved(t) THEN "removed"
  ELSE IF isStateAdded(t) THEN "added"
  ELSE IF isStateRestored(t) THEN "restored"
  ELSE IF isStateChanged(t) THEN "changed"
  ELSE ""

\* store.get(position) ?? new ChangeLine(position, []), store.set, line.add(tag):
\* the change map is a list of ChangeLine entries [line, types] in Map
\* insertion order
storeAdd_overwrite(store, position, tag) ==
  LET types == IF tag = "" THEN <<>> ELSE <<tag>>
  IN  IF \E j \in 1..Len(store) : store[j].line = position
      THEN Array([j \in 1..Len(store) |->
                    IF store[j].line = position /\ tag # ""
                    THEN [line |-> position, types |-> types]
                    ELSE store[j]], Len(store))
      ELSE Append(store, [line |-> position, types |-> types])

storeAdd(store, position, tag) ==
  LET types == IF tag = "" THEN <<>> ELSE <<tag>>
  IN  IF \E j \in 1..Len(store) : store[j].line = position
      THEN Array([j \in 1..Len(store) |->
                    IF store[j].line = position /\ tag # ""
                    THEN [line |-> position, types |-> ChangeLine_add(store[j].types, tag)]
                    ELSE store[j]], Len(store))
      ELSE Append(store, [line |-> position, types |-> types])

RECURSIVE updateChangesFrom(_, _, _)
updateChangesFrom(tr, i, store) ==
  IF i > Len(tr) THEN store
  ELSE IF isStateGhost(tr[i]) THEN updateChangesFrom(tr, i + 1, store)
  ELSE updateChangesFrom(tr, i + 1,
         storeAdd(store,
                  IF isStateRemoved(tr[i]) THEN tr[i].removedAtPosition ELSE tr[i].currentPosition,
                  tagOf(tr[i])))

updateChanges(tr) == updateChangesFrom(tr, 1, <<>>)

\* isStateSameOriginal(): getOriginalState() === getLastState()
isStateSameOriginal(original, current) == join(original) = join(current)

\* ChangeLine.has(list)
ChangeLine_has(entry, list) == \E i \in 1..Len(entry.types) : entry.types[i] \in list

\* getChanges([changed, added, removed]).size
getChangesLinesCount(store) ==
  Cardinality({j \in 1..Len(store) : ChangeLine_has(store[j], {"changed", "added", "removed"})})

\* ------------------------------------------------- ChangeDetectorExtension
\* A change tuple of a ChangeSet is [fromA, toA, inserted] in the coordinates
\* of the document before the transaction; fromB/toB follow from the tuples
\* before it.

\* the document after the transaction (tuples in document order)
RECURSIVE applyChanges(_, _, _)
applyChanges(d, tuples, k) ==
  IF k = 0 THEN d
  ELSE LET c == tuples[k]
           d1 == SubSeq(d, 1, c.fromA) \o c.inserted \o SubSeq(d, c.toA + 1, Len(d))
       IN  applyChanges(d1, tuples, k - 1)

\* lines 95-102: the removal loop, i = 0 .. count - 1
RECURSIVE removedLoop(_, _, _, _, _)
removedLoop(c, toOldLine, i, count, time) ==
  IF i > count - 1 THEN c
  ELSE removedLoop(removeTrackerOrLine(c, toOldLine - i, TRUE, time), toOldLine, i + 1, count, time)

\* lines 104-111: the addition loop, i = 1 .. count
RECURSIVE addedLoop(_, _, _, _)
addedLoop(c, fromNewLine, i, count) ==
  IF i > count THEN c
  ELSE addedLoop(restoreOrAddTracker(c, fromNewLine + i, TRUE), fromNewLine, i + 1, count)

\* currentLines[lineNumber], undefined past the end of the array
lineContent(currentLines, lineNumber) ==
  IF lineNumber + 1 \in 1..Len(currentLines) THEN currentLines[lineNumber + 1] ELSE NoContent

\* lines 113-124: the do/while over inserted.iterLines(); the body reaches
\* tracker?.change for offset = 0 .. inserted.lines - 1
RECURSIVE changeLoop(_, _, _, _, _, _)
changeLoop(tr, start, offset, insertedLines, currentLines, time) ==
  IF offset >= insertedLines THEN tr
  ELSE LET lineNumber == offset + start
           k == findCurrentLine(tr, lineNumber, Undefined)
           tr1 == IF k = 0 THEN tr
                  ELSE [tr EXCEPT ![k] = TrackerLine_change(tr[k], lineContent(currentLines, lineNumber),
                                                            Undefined, time)]
       IN  changeLoop(tr1, start, offset + 1, insertedLines, currentLines, time)

\* the line coordinates the iterChanges callback derives from one tuple
tupleLines(prev, newDoc, fromA, toA, fromB, toB) ==
  [ fromNewLine |-> lineAt(newDoc, fromB),
    toNewLine |-> lineAt(newDoc, toB),
    fromOldLine |-> lineAt(prev, fromA),
    toOldLine |-> lineAt(prev, toA) ]

linesDiffCount(ln) == (ln.fromOldLine - ln.toOldLine) + (ln.toNewLine - ln.fromNewLine)

\* the iterChanges callback (lines 83-125) for one tuple
iterChangesCallback(c, prev, newDoc, fromA, toA, fromB, toB, inserted, time) ==
  LET ln == tupleLines(prev, newDoc, fromA, toA, fromB, toB)
      start == IF ln.fromNewLine < ln.toNewLine THEN ln.fromNewLine ELSE ln.toNewLine
      diff == linesDiffCount(ln)
      c1 == IF diff < 0 THEN removedLoop(c, ln.toOldLine, 0, Abs(diff), time)
            ELSE IF diff > 0 THEN addedLoop(c, ln.fromNewLine, 1, Abs(diff))
            ELSE c
  IN  Coll(changeLoop(c1.tr, start, 0, textLines(inserted), split(newDoc), time), c1.nid, 0)

\* changes.iterChanges(callback, true): one call per tuple, in document order
RECURSIVE iterChanges(_, _, _, _, _, _, _)
iterChanges(c, prev, newDoc, tuples, k, delta, time) ==
  IF k > Len(tuples) THEN c
  ELSE LET t == tuples[k]
           fromB == t.fromA + delta
           toB == fromB + Len(t.inserted)
           c1 == iterChangesCallback(c, prev, newDoc, t.fromA, t.toA, fromB, toB, t.inserted, time)
       IN  iterChanges(c1, prev, newDoc, tuples, k + 1,
                       delta + Len(t.inserted) - (t.toA - t.fromA), time)

\* computeIncrementalChanges up to the updateState/updateChanges calls:
\* prev is the joined last state of the snapshot, newDoc the editor document
computeIncrementalChanges(c, lastState, newDoc, tuples, time) ==
  iterChanges(c, join(lastState), newDoc, tuples, 1, 0, time)

\* ------------------------------------------------------------------ state
VARIABLES
  doc,        \* the editor document (view.state.doc) as a string
  lines,      \* FileSnapshot.lines: the original lines
  state,      \* FileSnapshot.state: the last known lines
  lastHash,   \* FileSnapshot.lastHash
  tracker,    \* FileSnapshot.tracker
  changes,    \* FileSnapshot.changes
  nextId,     \* the next id TextHelper.rndId hands out
  now,        \* Date.now()
  edits,      \* number of calls made so far
  last        \* the last call: its name, arguments and result

\* the plugin's services and the workspace around them
VARIABLES
  fileSnapshots,   \* SnapshotsService.fileSnapshots: path -> FileSnapshot
  ignoreList,      \* SnapshotsService.ignoreList
  reading,         \* capture calls waiting at `await vault.read`, per file
  loading,         \* SnapshotsService.load: files left, and whether it waits
  nextSnapshot,    \* the next FileSnapshot.id TextHelper.rndId hands out
  settings,        \* SettingsService values: keep, ignoreNewFiles, allowedExtensions
  vault,           \* the files of the vault
  workspaceFiles,  \* plugin.getWorkspaceFiles(): files open in markdown leaves
  activeFile,      \* plugin.getActiveFile()
  views            \* the document of the editor view of each open file

regvars == <<fileSnapshots, ignoreList, reading, loading, nextSnapshot, settings,
             vault, workspaceFiles, activeFile, views>>

vars == <<doc, lines, state, lastHash, tracker, changes, nextId, now, edits, last,
          fileSnapshots, ignoreList, reading, loading, nextSnapshot, settings,
          vault, workspaceFiles, activeFile, views>>

\* two files of the vault, the absent file (null) and the absent snapshot
Files == {"a.md", "b.txt"}
FileOrder == <<"a.md", "b.txt">>
NoFile == "null"
Extension(file) == IF file = "a.md" THEN "md" ELSE "txt"

NoSnapshot ==
  [id |-> 0, lines |-> <<>>, state |-> <<>>, lastHash |-> NullHash,
   tracker |-> <<>>, changes |-> <<>>, nid |-> 1]

DEFAULT_SETTINGS == [keep |-> "file", allowedExtensions |-> {"md", "txt"}, ignoreNewFiles |-> TRUE]

\* no plugin instance: the single snapshot of the editor is driven directly
NoRegistry ==
  /\ fileSnapshots = [f \in Files |-> NoSnapshot]
  /\ ignoreList = {}
  /\ reading = [f \in Files |-> 0]
  /\ loading = [files |-> <<>>, waiting |-> FALSE]
  /\ nextSnapshot = 1
  /\ settings = DEFAULT_SETTINGS
  /\ vault = {}
  /\ workspaceFiles = {}
  /\ activeFile = NoFile
  /\ views = [f \in Files |-> <<>>]

Inserted == SeqsUpTo(Chars, MaxInsLen)

Tuple(f, t, ins) == [fromA |-> f, toA |-> t, inserted |-> ins]

\* a tuple of a ChangeSet on a document of length n: a range and its
\* replacement, never the empty replacement of an empty range
IsTuple(n, f, t, ins) == f <= t /\ t <= n /\ ~(f = t /\ ins = <<>>)

\* the record kept in `last`: the call, its arguments (tuples of a
\* transaction, or the line argument of a collection call), whether the
\* change detector went on to computeIncrementalChanges, the id of the
\* tracker a collection call returned (0 = null) and, for a collection
\* call, the tracker array before the call
Call(op, tuples, handled, arg, ret, pre) ==
  [op |-> op, tuples |-> tuples, handled |-> handled, arg |-> arg, ret |-> ret, pre |-> pre]

NoCall == Call("new", <<>>, FALSE, -1, 0, <<>>)

\* new FileSnapshot(content): one tracker per original line, then updateState
FileSnapshot(content) ==
  LET ls == split(content)
  IN  [ lines |-> ls,
        tracker |-> Array([i \in 1..Len(ls) |-> TrackerLine(i, ls[i], i - 1, i - 1, TRUE)], Len(ls)),
        state |-> ls,
        lastHash |-> hash(join(ls)) ]

Originals == SeqsUpTo(Chars, MaxOrigLen)
SingleOriginals == SeqsUpTo(Chars, MaxSingleOrigLen)

\* the editor holds `content` and its snapshot has just been captured
Captured(content) ==
  LET snap == FileSnapshot(content)
  IN  /\ doc = content
      /\ lines = snap.lines
      /\ state = snap.state
      /\ lastHash = snap.lastHash
      /\ tracker = snap.tracker
      /\ changes = <<>>
      /\ nextId = Len(snap.lines) + 1
      /\ now = 0
      /\ edits = 0
      /\ last = NoCall
      /\ NoRegistry

Init == \E content \in Originals : Captured(content)

InitSingle == \E content \in SingleOriginals : Captured(content)

isNeedUpdate_always(h, content) == TRUE

\* isNeedUpdate(content)
isNeedUpdate(h, content) == h # hash(content)

\* processIncrementalChanges: nothing happens for an empty document
\* (!currentContent) or when the content hash equals lastHash
Handled(h, content) == content # <<>> /\ isNeedUpdate(h, content)

\* ChangeDetectorExtension.update for a transaction of the editor; the
\* tuples are recorded in `last` when `traced`
Update(tx, traced) ==
  /\ UNCHANGED regvars
  /\ now' = now
  /\ edits' = edits + 1
  /\ lines' = lines
  /\ \E d \in {applyChanges(doc, tx, Len(tx))} :
       /\ doc' = d
       /\ IF Handled(lastHash, d)
          THEN /\ \E c \in {computeIncrementalChanges(Coll(tracker, nextId, 0), state, d, tx, now)} :
                    /\ tracker' = c.tr
                    /\ nextId' = c.nid
                    /\ changes' = updateChanges(c.tr)
               /\ \E st \in {split(d)} :
                    /\ state' = st
                    /\ lastHash' = hash(join(st))
               /\ last' = Call("update", IF traced THEN tx ELSE <<>>, TRUE, -1, 0, <<>>)
          ELSE /\ UNCHANGED <<tracker, nextId, state, lastHash, changes>>
               /\ last' = Call("update", IF traced THEN tx ELSE <<>>, FALSE, -1, 0, <<>>)

\* a transaction with one change tuple
EditOne ==
  \E f \in 0..Len(doc), t \in 0..Len(doc), ins \in Inserted :
    /\ edits < MaxEdits
    /\ IsTuple(Len(doc), f, t, ins)
    /\ Len(doc) - (t - f) + Len(ins) <= MaxDocLen
    /\ Update(<<Tuple(f, t, ins)>>, FALSE)

\* a transaction with two change tuples in document order, separated by
\* unchanged text: an edit with two cursors, the same text at both
EditTwo ==
  \E f1 \in 0..Len(doc), t1 \in 0..Len(doc), ins \in Inserted :
    /\ edits < MaxEdits
    /\ IsTuple(Len(doc), f1, t1, ins)
    /\ \E f2 \in (t1 + 1)..Len(doc), t2 \in (t1 + 1)..Len(doc) :
         /\ IsTuple(Len(doc), f2, t2, ins)
         /\ Len(doc) - (t1 - f1) - (t2 - f2) + (2 * Len(ins)) <= MaxDocLen
         /\ Update(<<Tuple(f1, t1, ins), Tuple(f2, t2, ins)>>, FALSE)

\* some tracker was removed at the current time
Stamped == \E i \in 1..Len(tracker) : tracker[i].removedTimeStamp = now

\* a millisecond passes between two transactions; the only stamps the code
\* compares are the removedTimeStamp values (the sort of getTracker), with
\* each other, so the clock is advanced only past a removal stamp in use
Tick ==
  /\ now < MaxClock
  /\ edits < MaxEdits
  /\ Stamped
  /\ now' = now + 1
  /\ UNCHANGED <<doc, lines, state, lastHash, tracker, changes, nextId, edits, last>>
  /\ UNCHANGED regvars

Next == EditOne \/ EditTwo \/ Tick

Spec == Init /\ [][Next]_vars

\* transactions with a single change tuple, recorded in `last`
UpdateOne ==
  \E f \in 0..Len(doc), t \in 0..Len(doc), ins \in Inserted :
    /\ edits < MaxEdits
    /\ IsTuple(Len(doc), f, t, ins)
    /\ Len(doc) - (t - f) + Len(ins) <= MaxDocLen
    /\ Update(<<Tuple(f, t, ins)>>, TRUE)

NextSingle == UpdateOne \/ Tick

SpecSingle == InitSingle /\ [][NextSingle]_vars

\* --------------------------------------------- direct calls on a snapshot
\* The public methods of FileSnapshot called one at a time on a snapshot,
\* with the clock free to stand still or advance between two calls.
Positions == 0..MaxDocLen

\* snapshot.removeTrackerOrLine(p)
CallRemove ==
  \E p \in Positions :
    /\ edits < MaxOps
    /\ \E c \in {removeTrackerOrLine(Coll(tracker, nextId, 0), p, TRUE, now)} :
         /\ tracker' = c.tr
         /\ nextId' = c.nid
         /\ last' = Call("remove", <<>>, TRUE, p, c.ret, tracker)
    /\ edits' = edits + 1
    /\ UNCHANGED <<doc, lines, state, lastHash, changes, now>>
    /\ UNCHANGED regvars

\* snapshot.restoreOrAddTracker(p)
CallRestore ==
  \E p \in Positions :
    /\ edits < MaxOps
    /\ \E c \in {restoreOrAddTracker(Coll(tracker, nextId, 0), p, TRUE)} :
         /\ tracker' = c.tr
         /\ nextId' = c.nid
         /\ last' = Call("restore", <<>>, TRUE, p, c.ret, tracker)
    /\ edits' = edits + 1
    /\ UNCHANGED <<doc, lines, state, lastHash, changes, now>>
    /\ UNCHANGED regvars

\* snapshot.findCurrentLine(p)?.change(content)
CallChange ==
  \E p \in Positions, content \in SeqsUpTo(Letters, 1) :
    /\ edits < MaxOps
    /\ \E k \in {findCurrentLine(tracker, p, Undefined)} :
         /\ k # 0
         /\ tracker' = [tracker EXCEPT ![k] = TrackerLine_change(tracker[k], content, Undefined, now)]
         /\ last' = Call("change", <<content>>, TRUE, p, tracker[k].id, tracker)
    /\ edits' = edits + 1
    /\ UNCHANGED <<doc, lines, state, lastHash, changes, nextId, now>>
    /\ UNCHANGED regvars

\* a millisecond passes between two calls, advanced like Tick only past a
\* removal stamp in use
CallTick ==
  /\ now < MaxClock
  /\ edits < MaxOps
  /\ Stamped
  /\ now' = now + 1
  /\ UNCHANGED <<doc, lines, state, lastHash, tracker, changes, nextId, edits, last>>
  /\ UNCHANGED regvars

NextCalls == CallRemove \/ CallRestore \/ CallChange \/ CallTick

SpecCalls == InitSingle /\ [][NextCalls]_vars

\* Direct calls of FileSnapshot.shiftUp / shiftDown (line, to, offset), the
\* optional `to` either omitted or a line number not below `line`
ShiftEnds(from, max) == {Undefined} \cup from..max

CallShiftUp ==
  \E from \in 0..MaxShiftPos, k \in 1..MaxShift :
    \E to \in ShiftEnds(from, MaxShiftPos) :
      /\ edits < MaxShiftOps
      /\ tracker' = shiftUp(tracker, from, to, k)
      /\ last' = Call("shiftUp", <<from, to, k>>, TRUE, from, 0, tracker)
      /\ edits' = edits + 1
      /\ UNCHANGED <<doc, lines, state, lastHash, changes, nextId, now>>
      /\ UNCHANGED regvars

CallShiftDown ==
  \E from \in 0..(MaxShiftPos + MaxShift), k \in 1..MaxShift :
    \E to \in ShiftEnds(from, MaxShiftPos + MaxShift) :
      /\ edits < MaxShiftOps
      /\ tracker' = shiftDown(tracker, from, to, k)
      /\ last' = Call("shiftDown", <<from, to, k>>, TRUE, from, 0, tracker)
      /\ edits' = edits + 1
      /\ UNCHANGED <<doc, lines, state, lastHash, changes, nextId, now>>
      /\ UNCHANGED regvars

NextShift == CallShiftUp \/ CallShiftDown

SpecShift == InitSingle /\ [][NextShift]_vars

\* snapshot.moveTo(line, position)
CallMoveTo ==
  \E line \in Positions : \E position \in Positions :
    /\ edits < MaxMoveOps
    /\ \E c \in {moveTo(Coll(tracker, nextId, 0), line, position)} :
         /\ tracker' = c.tr
         /\ nextId' = c.nid
         /\ last' = Call("moveTo", <<line, position>>, TRUE, line, c.ret, tracker)
    /\ edits' = edits + 1
    /\ UNCHANGED <<doc, lines, state, lastHash, changes, now>>
    /\ UNCHANGED regvars

\* removeTrackerOrLine / restoreOrAddTracker among the calls of moveTo
MoveRemove == edits < MaxMoveOps /\ CallRemove

MoveRestore == edits < MaxMoveOps /\ CallRestore

NextMove == CallMoveTo \/ MoveRemove \/ MoveRestore

SpecMove == InitSingle /\ [][NextMove]_vars

\* ------------------------------------------------------- SnapshotsService
\* The registry as the service methods see it: the snapshot map, the ignore
\* list and the capture calls that wait for vault.read
Registry(snaps, ign, rd) == [snaps |-> snaps, ign |-> ign, rd |-> rd]

\* new FileSnapshot(content, lineBreak, file) with a fresh id
Snapshot(id, content) ==
  LET snap == FileSnapshot(content)
  IN  [id |-> id, lines |-> snap.lines, state |-> snap.state, lastHash |-> snap.lastHash,
       tracker |-> snap.tracker, changes |-> <<>>, nid |-> Len(snap.lines) + 1]

\* getOne(file): file ?? getActiveFile(), then the map lookup (id 0 = null)
getOne(snaps, file, current) ==
  LET currentFile == IF file # NoFile THEN file ELSE current
  IN  IF currentFile = NoFile THEN NoSnapshot ELSE snaps[currentFile]

isInAllowedExtensions(file, allowed) == Extension(file) \in allowed
isCaptured(reg, file) == file # NoFile /\ reg.snaps[file].id # 0
isInIgnoreList(reg, file) == file # NoFile /\ file \in reg.ign

canCapture_noIgnore(reg, file, allowed) ==
  /\ file # NoFile
  /\ isInAllowedExtensions(file, allowed)
  /\ ~isCaptured(reg, file)

canCapture(reg, file, allowed) ==
  /\ file # NoFile
  /\ isInAllowedExtensions(file, allowed)
  /\ ~isCaptured(reg, file)
  /\ ~isInIgnoreList(reg, file)

\* capture(file) up to `await vault.read`: one more call waits for the file
capture(reg, file, current, allowed) ==
  LET currentFile == IF file # NoFile THEN file ELSE current
  IN  IF canCapture(reg, currentFile, allowed)
      THEN [reg EXCEPT !.rd[currentFile] = @ + 1]
      ELSE reg

\* remove(file) and removeFromIgnoreList(file)
remove(reg, file) ==
  IF file = NoFile THEN reg ELSE [reg EXCEPT !.snaps[file] = NoSnapshot]

removeFromIgnoreList(reg, file) ==
  IF file = NoFile THEN reg ELSE [reg EXCEPT !.ign = @ \ {file}]

\* wipeOne(file); forceUpdateEditor dispatches a transaction without changes
wipeOne(reg, file, current, allowed) ==
  LET target == IF file # NoFile THEN file ELSE current
      r1 == removeFromIgnoreList(remove(reg, target), target)
  IN  IF current # NoFile /\ (file = NoFile \/ file = current)
      THEN capture(r1, NoFile, current, allowed)
      ELSE r1

\* wipe()
wipe(reg, current, allowed) ==
  capture(Registry([f \in Files |-> NoSnapshot], {}, reg.rd), NoFile, current, allowed)

RECURSIVE wipeClosed_anyKeep(_, _, _, _, _, _)
wipeClosed_anyKeep(reg, listed, k, openedFiles, current, s) ==
  IF k > Len(FileOrder) THEN reg
  ELSE LET file == FileOrder[k]
           r1 == IF file \in listed /\ file \notin openedFiles
                 THEN wipeOne(reg, file, current, s.allowedExtensions)
                 ELSE reg
       IN  wipeClosed_anyKeep(r1, listed, k + 1, openedFiles, current, s)

\* WorkspaceLayoutChangeEvent.handler, first loop: the snapshots of getList()
\* whose file is not open are wiped when keep = 'file'
RECURSIVE wipeClosed(_, _, _, _, _, _)
wipeClosed(reg, listed, k, openedFiles, current, s) ==
  IF k > Len(FileOrder) THEN reg
  ELSE LET file == FileOrder[k]
           r1 == IF file \in listed /\ s.keep = "file" /\ file \notin openedFiles
                 THEN wipeOne(reg, file, current, s.allowedExtensions)
                 ELSE reg
       IN  wipeClosed(r1, listed, k + 1, openedFiles, current, s)

\* third loop: capture every open file that has no snapshot
RECURSIVE captureOpened(_, _, _, _, _)
captureOpened(reg, k, openedFiles, current, allowed) ==
  IF k > Len(FileOrder) THEN reg
  ELSE LET file == FileOrder[k]
           r1 == IF file \in openedFiles /\ getOne(reg.snaps, file, current).id = 0
                 THEN capture(reg, file, current, allowed)
                 ELSE reg
       IN  captureOpened(r1, k + 1, openedFiles, current, allowed)

layoutChange(reg, openedFiles, current, s) ==
  LET listed == {f \in Files : reg.snaps[f].id # 0}
      r1 == wipeClosed(reg, listed, 1, openedFiles, current, s)
      r2 == [r1 EXCEPT !.ign = @ \cap openedFiles]
  IN  captureOpened(r2, 1, openedFiles, current, s.allowedExtensions)

\* the contents vault.read may return and an editor may load
Contents == {<<"a">>, <<NL>>}

Settings ==
  [keep : {"file", "app"}, allowedExtensions : {{"md"}, {"md", "txt"}}, ignoreNewFiles : BOOLEAN]

\* the plugin has been constructed and load() is about to run over the files
\* open in the workspace
InitRegistry ==
  /\ doc = <<>> /\ lines = <<>> /\ state = <<>> /\ lastHash = NullHash
  /\ tracker = <<>> /\ changes = <<>> /\ nextId = 1
  /\ now = 0 /\ edits = 0 /\ last = NoCall
  /\ fileSnapshots = [f \in Files |-> NoSnapshot]
  /\ ignoreList = {}
  /\ reading = [f \in Files |-> 0]
  /\ nextSnapshot = 1
  /\ settings \in Settings
  /\ vault \in SUBSET Files
  /\ workspaceFiles \in SUBSET vault
  /\ activeFile \in (IF workspaceFiles = {} THEN {NoFile} ELSE workspaceFiles)
  /\ loading = [files |-> SelectSeq(FileOrder, LAMBDA f : f \in workspaceFiles), waiting |-> FALSE]
  /\ views = [f \in Files |-> IF f \in workspaceFiles THEN <<"a">> ELSE <<>>]

Event(op, file) == Call(op, <<file>>, TRUE, -1, 0, <<>>)

\* the registry after a handler ran: no file has more waiting calls than
\* the bound allows
Store(reg) ==
  /\ \A f \in Files : reg.rd[f] <= MaxPending
  /\ fileSnapshots' = reg.snaps
  /\ ignoreList' = reg.ign
  /\ reading' = reg.rd

Current == Registry(fileSnapshots, ignoreList, reading)

Counted == edits < MaxEvents /\ edits' = edits + 1

editorvars == <<doc, lines, state, lastHash, tracker, changes, nextId, now>>

\* SnapshotsService.load: `for (file of workspace files) await capture(file)`
LoadCapture ==
  /\ Counted
  /\ loading.files # <<>> /\ ~loading.waiting
  /\ \E file \in {Head(loading.files)} :
       /\ Store(capture(Current, file, activeFile, settings.allowedExtensions))
       /\ loading' = IF canCapture(Current, file, settings.allowedExtensions)
                     THEN [loading EXCEPT !.waiting = TRUE]
                     ELSE [loading EXCEPT !.files = Tail(@)]
       /\ last' = Event("load", file)
  /\ UNCHANGED <<nextSnapshot, settings, vault, workspaceFiles, activeFile, views>>
  /\ UNCHANGED editorvars

\* capture after `await vault.read`: add(file, content) sets the map entry.
\* The call that resumes is the one load() awaits, or another one.
CaptureResume ==
  \E file \in Files, content \in Contents, byLoad \in BOOLEAN :
    /\ Counted
    /\ nextSnapshot <= MaxSnapshots
    /\ LET awaited == loading.waiting /\ Head(loading.files) = file
       IN  /\ byLoad => awaited
           /\ ~byLoad => reading[file] > (IF awaited THEN 1 ELSE 0)
    /\ reading[file] > 0
    /\ fileSnapshots' = [fileSnapshots EXCEPT ![file] = Snapshot(nextSnapshot, content)]
    /\ nextSnapshot' = nextSnapshot + 1
    /\ reading' = [reading EXCEPT ![file] = @ - 1]
    /\ loading' = IF byLoad THEN [files |-> Tail(loading.files), waiting |-> FALSE] ELSE loading
    /\ last' = Event("capture", file)
    /\ UNCHANGED <<ignoreList, settings, vault, workspaceFiles, activeFile, views>>
    /\ UNCHANGED editorvars

\* WorkspaceFileOpenEvent.handler(file), fired for the file that became active
WorkspaceFileOpenEvent ==
  /\ Counted
  /\ activeFile # NoFile
  /\ Store(capture(Current, activeFile, activeFile, settings.allowedExtensions))
  /\ last' = Event("fileOpen", activeFile)
  /\ UNCHANGED <<loading, nextSnapshot, settings, vault, workspaceFiles, activeFile, views>>
  /\ UNCHANGED editorvars

\* WorkspaceLayoutChangeEvent.handler()
WorkspaceLayoutChangeEvent ==
  /\ Counted
  /\ Store(layoutChange(Current, workspaceFiles, activeFile, settings))
  /\ last' = Call("layoutChange", <<NoFile>>, TRUE, -1, 0,
                   Array([k \in 1..Len(FileOrder) |-> fileSnapshots[FileOrder[k]].id], Len(FileOrder)))
  /\ UNCHANGED <<loading, nextSnapshot, settings, vault, workspaceFiles, activeFile, views>>
  /\ UNCHANGED editorvars

\* VaultCreateEvent.handler(file) for a file that was just created
VaultCreateEvent ==
  \E file \in Files \ vault :
    /\ Counted
    /\ vault' = vault \cup {file}
    /\ ignoreList' = IF settings.ignoreNewFiles /\ isInAllowedExtensions(file, settings.allowedExtensions)
                     THEN ignoreList \cup {file}
                     ELSE ignoreList
    /\ last' = Event("create", file)
    /\ UNCHANGED <<fileSnapshots, reading, loading, nextSnapshot, settings, workspaceFiles, activeFile, views>>
    /\ UNCHANGED editorvars

\* the reset-lines command and the history modal: wipeOne(file)
WipeOne ==
  \E file \in Files \cup {NoFile} :
    /\ Counted
    /\ Store(wipeOne(Current, file, activeFile, settings.allowedExtensions))
    /\ last' = Event("wipeOne", IF file # NoFile THEN file ELSE activeFile)
    /\ UNCHANGED <<loading, nextSnapshot, settings, vault, workspaceFiles, activeFile, views>>
    /\ UNCHANGED editorvars

\* the reset-lines-all command: wipe()
Wipe ==
  /\ Counted
  /\ Store(wipe(Current, activeFile, settings.allowedExtensions))
  /\ last' = Event("wipe", NoFile)
  /\ UNCHANGED <<loading, nextSnapshot, settings, vault, workspaceFiles, activeFile, views>>
  /\ UNCHANGED editorvars

\* the user opens a file of the vault in a markdown leaf, which becomes active
OpenFile ==
  \E file \in vault \ workspaceFiles, content \in Contents :
    /\ Counted
    /\ workspaceFiles' = workspaceFiles \cup {file}
    /\ activeFile' = file
    /\ views' = [views EXCEPT ![file] = content]
    /\ last' = Event("open", file)
    /\ UNCHANGED <<fileSnapshots, ignoreList, reading, loading, nextSnapshot, settings, vault>>
    /\ UNCHANGED editorvars

\* the user closes a leaf; another open file, if any, becomes active
CloseFile ==
  \E file \in workspaceFiles :
    /\ Counted
    /\ workspaceFiles' = workspaceFiles \ {file}
    /\ activeFile' \in (IF workspaceFiles' = {} THEN {NoFile} ELSE workspaceFiles')
    /\ views' = [views EXCEPT ![file] = <<>>]
    /\ last' = Event("close", file)
    /\ UNCHANGED <<fileSnapshots, ignoreList, reading, loading, nextSnapshot, settings, vault>>
    /\ UNCHANGED editorvars

\* ChangeDetectorExtension.update in the editor view of `file`: a character
\* is inserted at the start of that view's document.  The snapshot is the one
\* getOne() returns, the snapshot of the active file.
processIncrementalChanges(snapshot, currentContent, tx, time) ==
  IF snapshot.id = 0 \/ ~Handled(snapshot.lastHash, currentContent) THEN snapshot
  ELSE LET c == computeIncrementalChanges(Coll(snapshot.tracker, snapshot.nid, 0),
                                          snapshot.state, currentContent, tx, time)
           st == split(currentContent)
       IN  [snapshot EXCEPT !.tracker = c.tr, !.nid = c.nid, !.changes = updateChanges(c.tr),
                            !.state = st, !.lastHash = hash(join(st))]

ViewUpdate ==
  \E file \in workspaceFiles, ch \in Chars :
    /\ Counted
    /\ Len(views[file]) < MaxDocLen
    /\ \E tx \in {<<Tuple(0, 0, <<ch>>)>>} :
         \E d \in {applyChanges(views[file], tx, Len(tx))} :
           /\ views' = [views EXCEPT ![file] = d]
           /\ fileSnapshots' =
                IF activeFile = NoFile THEN fileSnapshots
                ELSE [fileSnapshots EXCEPT ![activeFile] =
                        processIncrementalChanges(getOne(fileSnapshots, NoFile, activeFile), d, tx, now)]
    /\ last' = Event("update", file)
    /\ UNCHANGED <<ignoreList, reading, loading, nextSnapshot, settings, vault, workspaceFiles, activeFile>>
    /\ UNCHANGED editorvars

NextRegistry ==
  \/ LoadCapture \/ CaptureResume
  \/ WorkspaceFileOpenEvent \/ WorkspaceLayoutChangeEvent \/ VaultCreateEvent
  \/ WipeOne \/ Wipe
  \/ OpenFile \/ CloseFile
  \/ ViewUpdate

SpecRegistry == InitRegistry /\ [][NextRegistry]_vars

\* ------------------------------------------------------------------ claims
Existing == {i \in 1..Len(tracker) : existedInCurrent(tracker[i])}

\* C1: no two distinct trackers that exist in the current document have the
\* same currentPosition, after any sequence of change transactions
C1_NoDuplicatePositions ==
  \A i \in Existing : \A j \in Existing :
    i # j => tracker[i].currentPosition # tracker[j].currentPosition

\* two transactions were applied and left an added line, a removed line and
\* at least two lines with their trackers
C1_Witness ==
  /\ edits = MaxEdits /\ last.op = "update" /\ last.handled
  /\ \E i \in 1..Len(tracker) : isStateAdded(tracker[i])
  /\ \E i \in 1..Len(tracker) : isStateRemoved(tracker[i])
  /\ Cardinality(Existing) >= 2

\* C2: after every single-tuple transaction the existing trackers occupy
\* exactly the positions 0..len(state)-1, one tracker per line of the state
C2_OneTrackerPerLine ==
  /\ \A p \in 0..(Len(state) - 1) :
       Cardinality({i \in Existing : tracker[i].currentPosition = p}) = 1
  /\ \A i \in Existing : tracker[i].currentPosition < Len(state)

\* the number of the six classifications that hold of a tracker
Holds(b) == IF b THEN 1 ELSE 0

Classifications(t) ==
  Holds(isStateGhost(t)) + Holds(isStateRemoved(t)) + Holds(isStateAdded(t))
    + Holds(isStateChanged(t)) + Holds(isStateOriginal(t)) + Holds(isStateRestored(t))

Max(a, b) == IF a >= b THEN a ELSE b

\* C4: getChangesLinesCount() never exceeds max(len(lines), len(state))
C4_ChangeCountBoundary ==
  getChangesLinesCount(changes) <= Max(Len(lines), Len(state))

\* offset of the first character of line k (0-based) in the joined lines
RECURSIVE lineStart(_, _)
lineStart(ls, k) == IF k = 0 THEN 0 ELSE lineStart(ls, k - 1) + Len(ls[k]) + 1

\* the tuple deletes line k of ls together with the line break before it
DeletesWithBreakBefore(ls, tu, k) ==
  /\ k >= 1
  /\ tu.inserted = <<>>
  /\ tu.fromA = lineStart(ls, k) - 1
  /\ tu.toA = lineStart(ls, k) + Len(ls[k + 1])

\* the tuple deletes line k of ls together with the line break after it
DeletesWithBreakAfter(ls, tu, k) ==
  /\ k <= Len(ls) - 2
  /\ tu.inserted = <<>>
  /\ tu.fromA = lineStart(ls, k)
  /\ tu.toA = lineStart(ls, k) + Len(ls[k + 1]) + 1

DeletesLine(ls, tu, k) == DeletesWithBreakBefore(ls, tu, k) \/ DeletesWithBreakAfter(ls, tu, k)

\* the first transaction on a fresh snapshot, handled by computeIncrementalChanges
FirstTransaction ==
  edits = 1 /\ last.op = "update" /\ last.handled /\ Len(last.tuples) = 1

\* C5: on an unedited snapshot with n >= 2 lines, deleting exactly line k
\* (with the break before it or the break after it) leaves the tracker of
\* original line k removed at k, those before k in place and original, and
\* those after k one position lower and original
C5_DeleteWholeLine ==
  (FirstTransaction /\ Len(lines) >= 2) =>
    \A k \in 0..(Len(lines) - 1) :
      DeletesLine(lines, last.tuples[1], k) =>
        /\ \E i \in 1..Len(tracker) : tracker[i].originalPosition = k
        /\ \A i \in 1..Len(tracker) :
             LET t == tracker[i]
             IN  /\ t.originalPosition = k => isStateRemoved(t) /\ t.removedAtPosition = k
                 /\ (t.originalPosition # -1 /\ t.originalPosition < k) =>
                      t.currentPosition = t.originalPosition /\ isStateOriginal(t)
                 /\ t.originalPosition > k =>
                      t.currentPosition = t.originalPosition - 1 /\ isStateOriginal(t)

NoBreak(s, from, to) == \A j \in from..to : s[j] # NL

\* the tuple inserts a new line k as "<break>text" at the end of line k-1
InsertsWithBreakFirst(ls, tu, k) ==
  /\ tu.fromA = lineStart(ls, k) - 1 /\ tu.toA = tu.fromA
  /\ Len(tu.inserted) >= 1 /\ tu.inserted[1] = NL
  /\ NoBreak(tu.inserted, 2, Len(tu.inserted))

\* the tuple inserts a new line k as "text<break>" at the start of old line k
InsertsWithBreakLast(ls, tu, k) ==
  /\ tu.fromA = lineStart(ls, k) /\ tu.toA = tu.fromA
  /\ Len(tu.inserted) >= 1 /\ tu.inserted[Len(tu.inserted)] = NL
  /\ NoBreak(tu.inserted, 1, Len(tu.inserted) - 1)

\* C6: on an unedited snapshot with n lines, inserting one whole line as
\* line k (0 < k < n), with its break first or last, creates exactly one new
\* tracker, added at k; trackers at >= k move up by one and every original
\* tracker stays original
C6_InsertWholeLine ==
  FirstTransaction =>
    \A k \in 1..(Len(lines) - 1) :
      (InsertsWithBreakFirst(lines, last.tuples[1], k)
         \/ InsertsWithBreakLast(lines, last.tuples[1], k)) =>
        /\ Len(tracker) = Len(lines) + 1
        /\ \A i \in 1..Len(tracker) :
             LET t == tracker[i]
             IN  IF t.originalPosition = -1
                 THEN isStateAdded(t) /\ t.currentPosition = k
                 ELSE /\ isStateOriginal(t)
                      /\ ~isStateChanged(t)
                      /\ t.currentPosition =
                           IF t.originalPosition >= k THEN t.originalPosition + 1
                           ELSE t.originalPosition

TagsAt(store, position) ==
  {tag \in {"changed", "restored", "added", "removed"} :
     \E j \in 1..Len(store) :
       store[j].line = position /\ \E m \in 1..Len(store[j].types) : store[j].types[m] = tag}

\* the step is findCurrentLine(p)?.change(content) on tracker k, which is in
\* state changed, with content whose hash is the tracker's original hash
ChangedBack(k) ==
  /\ last'.op = "change" /\ edits' = edits + 1
  /\ k = findCurrentLine(tracker, last'.arg, Undefined)
  /\ k # 0
  /\ isStateChanged(tracker[k])
  /\ hash(last'.tuples[1]) = tracker[k].hash

IndexOfId(tr, id) ==
  LET P(t) == t.id = id IN findFirst(tr, Indices(tr), P)

\* removeTrackerOrLine(p) has just marked a tracker of the original removed
\* and the step is the call restoreOrAddTracker(p)
RemoveThenRestore ==
  /\ last.op = "remove" /\ last.ret # 0
  /\ IndexOfId(tracker, last.ret) # 0
  /\ existedInOriginal(tracker[IndexOfId(tracker, last.ret)])
  /\ last'.op = "restore" /\ last'.arg = last.arg

\* C8: restoreOrAddTracker(p) right after removeTrackerOrLine(p) removed a
\* tracker of the original creates no tracker and returns that same tracker
\* with currentPosition = p, removedAtPosition = -1, removedTimeStamp = -1
C8_RestoreReusesRemoved ==
  [][RemoveThenRestore =>
       /\ last'.ret = last.ret
       /\ Len(tracker') = Len(tracker)
       /\ LET t == tracker'[IndexOfId(tracker', last.ret)]
          IN  /\ t.currentPosition = last.arg
              /\ t.removedAtPosition = -1
              /\ t.removedTimeStamp = -1]_vars

\* the step is a handled single-tuple transaction deleting exactly line k of
\* the document, whose tracker was created for an added line
DeletesAddedLine(k, i) ==
  /\ edits' = edits + 1
  /\ last'.op = "update" /\ last'.handled /\ Len(last'.tuples) = 1
  /\ state = split(doc)
  /\ k + 1 \in 1..Len(state)
  /\ DeletesLine(state, last'.tuples[1], k)
  /\ i = findCurrentLine(tracker, k, Undefined)
  /\ i # 0
  /\ tracker[i].originalPosition = -1

\* C9: when the line of a tracker created for an added line is deleted,
\* however the deletion is delivered, no tracker with that id remains and no
\* tracker is left in state ghost or carrying a removed position
C9_AddedLineDeleted ==
  [][\A k \in 0..MaxDocLen : \A i \in 1..Len(tracker) :
       DeletesAddedLine(k, i) =>
         /\ \A j \in 1..Len(tracker') : tracker'[j].id # tracker[i].id
         /\ \A j \in 1..Len(tracker') : ~isStateGhost(tracker'[j])]_vars

DuplicateFree(tr) ==
  \A i \in 1..Len(tr) : \A j \in 1..Len(tr) :
    (i # j /\ existedInCurrent(tr[i]) /\ existedInCurrent(tr[j])) =>
      tr[i].currentPosition # tr[j].currentPosition

\* C10: on a duplicate-free collection, removeTrackerOrLine(p) of a tracker
\* of the original followed by restoreOrAddTracker(p) returns every tracker
\* to the currentPosition it had before the removal, and the round-tripped
\* tracker is restored when its content equals the original, changed when
\* not, never removed, added or ghost
C10_RemoveRestoreRoundTrip ==
  [][(RemoveThenRestore /\ DuplicateFree(last.pre)) =>
       /\ \A i \in 1..Len(last.pre) :
            LET j == IndexOfId(tracker', last.pre[i].id)
            IN  j # 0 /\ tracker'[j].currentPosition = last.pre[i].currentPosition
       /\ LET t == tracker'[IndexOfId(tracker', last.ret)]
          IN  /\ t.contentSameOriginal => isStateRestored(t)
              /\ ~t.contentSameOriginal => isStateChanged(t)
              /\ ~isStateRemoved(t) /\ ~isStateAdded(t) /\ ~isStateGhost(t)]_vars

\* C11: shiftUp(from, to, k) followed by shiftDown(from + k, to + k, k), or
\* shiftUp(from, undefined, k) followed by shiftDown(from + k, undefined, k),
\* leaves every tracker's currentPosition as it was before the two calls.
ShiftedEnd(to, k) == IF to = Undefined THEN Undefined ELSE to + k

ShiftRoundTrip ==
  /\ last.op = "shiftUp"
  /\ edits' = edits + 1
  /\ last'.op = "shiftDown"
  /\ last'.tuples = <<last.tuples[1] + last.tuples[3], ShiftedEnd(last.tuples[2], last.tuples[3]), last.tuples[3]>>

PositionsRestored ==
  \A i \in 1..Len(tracker) : tracker'[i].currentPosition = last.pre[i].currentPosition

ClearAbove(tr, from, to, k) ==
  \A i \in 1..Len(tr) :
    ~(tr[i].currentPosition > to /\ tr[i].currentPosition <= to + k)

ShiftRoundTripClear ==
  /\ ShiftRoundTrip
  /\ \/ last.tuples[2] = Undefined
     \/ /\ last.tuples[2] >= 1
        /\ ClearAbove(last.pre, last.tuples[1], last.tuples[2], last.tuples[3])

Classification(t) ==
  <<isStateGhost(t), isStateRemoved(t), isStateAdded(t),
    isStateChanged(t), isStateOriginal(t), isStateRestored(t)>>

\* C12: a transaction that replaces a range of text with identical text (the
\* document content does not change) leaves every tracker's classification
\* and the change map exactly as they were before the transaction.
IdenticalReplacement ==
  /\ edits' = edits + 1
  /\ last'.op = "update"
  /\ doc' = doc

C12_IdenticalReplacement ==
  [][IdenticalReplacement =>
       /\ Len(tracker') = Len(tracker)
       /\ \A i \in 1..Len(tracker) : Classification(tracker'[i]) = Classification(tracker[i])
       /\ changes' = changes]_vars

\* the last transaction left a non-empty document as it was (its hash equals
\* lastHash) while the change map carries a changed, added or removed line
C12_Witness ==
  /\ last.op = "update" /\ ~last.handled
  /\ doc # <<>>
  /\ lastHash = hash(doc)
  /\ getChangesLinesCount(changes) > 0

\* C13: for every line index i of the original document there is exactly one
\* tracker with originalPosition = i, and it is the tracker (same id) that the
\* constructor created for that line.
C13_OriginalTrackersKept ==
  \A i \in 1..Len(lines) :
    /\ Cardinality({j \in 1..Len(tracker) : tracker[j].originalPosition = i - 1}) = 1
    /\ \E j \in 1..Len(tracker) :
         /\ tracker[j].originalPosition = i - 1
         /\ tracker[j].id = FileSnapshot(join(lines)).tracker[i].id

\* transactions removed a line of the original and left an added line, so a
\* tracker of the original is kept as removed next to a tracker created later
C13_Witness ==
  /\ edits = MaxEdits /\ last.op = "update" /\ last.handled
  /\ \E j \in 1..Len(tracker) : existedInOriginal(tracker[j]) /\ isStateRemoved(tracker[j])
  /\ \E j \in 1..Len(tracker) : ~existedInOriginal(tracker[j])
  /\ nextId > Len(tracker) + 1

\* C14: whenever the current content equals the original content
\* (isStateSameOriginal() is true) the change map carries no changed, added
\* or removed tag, so getChangesLinesCount() is 0.
C14_SameOriginalNoChanges ==
  isStateSameOriginal(lines, state) => getChangesLinesCount(changes) = 0

\* C15: after the change detector has handled an editor update, state equals
\* the editor's document split into lines and lastHash equals the hash of
\* that content, whatever the new content is.
C15_StateFollowsDocument ==
  last.op = "update" => (state = split(doc) /\ lastHash = hash(doc))

\* C16: an edit transaction delivered by the editor view of document A never
\* changes the state, trackers or change map of the snapshot of a different
\* document B, whichever document is the active file.
DeliveredBy(file) ==
  /\ edits' = edits + 1
  /\ last'.op = "update"
  /\ last'.tuples = <<file>>

C16_OnlyOwnSnapshot ==
  [][\A file \in Files : \A other \in Files \ {file} :
       DeliveredBy(file) =>
         /\ fileSnapshots'[other].state = fileSnapshots[other].state
         /\ fileSnapshots'[other].tracker = fileSnapshots[other].tracker
         /\ fileSnapshots'[other].changes = fileSnapshots[other].changes]_vars

\* C17: capture never replaces an existing snapshot: once a snapshot is stored
\* for a file path, a capture call leaves it the same snapshot (same id) with
\* the same original lines.
Stores(file) ==
  /\ edits' = edits + 1
  /\ last'.op = "capture"
  /\ last'.tuples = <<file>>

C17_CaptureKeepsSnapshot ==
  [][\A file \in Files :
       (Stores(file) /\ fileSnapshots[file].id # 0) =>
         /\ fileSnapshots'[file].id = fileSnapshots[file].id
         /\ fileSnapshots'[file].lines = fileSnapshots[file].lines]_vars

\* C18: with ignoreNewFiles enabled, once the vault-create handler has run for
\* a new file with an allowed extension, no capture call stores a snapshot for
\* that file while it is in the ignore list.
C18_IgnoredNotCaptured ==
  [][\A file \in Files : Stores(file) => file \notin ignoreList]_vars

\* a file created with ignoreNewFiles enabled was opened, the file-open handler
\* called capture for it, and no call waits and no snapshot is stored
C18_Witness ==
  /\ settings.ignoreNewFiles
  /\ last.op = "fileOpen"
  /\ \E file \in ignoreList :
       /\ last.tuples = <<file>>
       /\ file \in workspaceFiles
       /\ isInAllowedExtensions(file, settings.allowedExtensions)
       /\ reading[file] = 0
       /\ fileSnapshots[file].id = 0

\* C19: the layout-change handler with keep = 'file' leaves no snapshot of a
\* file that is not open; with keep = 'app' it removes no snapshot, and
\* closing and reopening a file leaves its snapshot and tracked changes.
LayoutChanged == edits' = edits + 1 /\ last'.op = "layoutChange"

C19_KeepSetting ==
  [][/\ (LayoutChanged /\ settings.keep = "file") =>
          \A file \in Files \ workspaceFiles : fileSnapshots'[file].id = 0
     /\ (settings.keep = "app" /\ edits' = edits + 1 /\ last'.op \in {"layoutChange", "close", "open"}) =>
          fileSnapshots' = fileSnapshots]_vars

\* the handler ran with keep = 'file' and removed the snapshot of a closed file
C19_Witness ==
  /\ last.op = "layoutChange"
  /\ settings.keep = "file"
  /\ \E k \in 1..Len(FileOrder) :
       /\ last.pre[k] # 0
       /\ FileOrder[k] \notin workspaceFiles
       /\ fileSnapshots[FileOrder[k]].id = 0

\* C20: for a transaction with two change tuples in disjoint regions, the
\* tracker collection after computeIncrementalChanges (ids, current and
\* removed positions, classifications) equals the collection obtained by
\* applying the two edits as consecutive single-tuple transactions in
\* document order.
Summary(tr) ==
  Array([i \in 1..Len(tr) |->
           <<tr[i].id, tr[i].currentPosition, tr[i].removedAtPosition, Classification(tr[i])>>], Len(tr))

AtOnce(first, second) ==
  computeIncrementalChanges(Coll(tracker, nextId, 0), state,
                            applyChanges(doc, <<first, second>>, 2), <<first, second>>, now)

OneByOne(first, second) ==
  LET d1 == applyChanges(doc, <<first>>, 1)
      c1 == computeIncrementalChanges(Coll(tracker, nextId, 0), state, d1, <<first>>, now)
      delta == Len(first.inserted) - (first.toA - first.fromA)
      moved == Tuple(second.fromA + delta, second.toA + delta, second.inserted)
      d2 == applyChanges(d1, <<moved>>, 1)
  IN  computeIncrementalChanges(Coll(c1.tr, c1.nid, 0), split(d1), d2, <<moved>>, now)

TwoTuples ==
  {tx \in [first : [fromA : 0..Len(doc), toA : 0..Len(doc), inserted : Inserted],
           second : [fromA : 0..Len(doc), toA : 0..Len(doc), inserted : Inserted]] :
     /\ IsTuple(Len(doc), tx.first.fromA, tx.first.toA, tx.first.inserted)
     /\ IsTuple(Len(doc), tx.second.fromA, tx.second.toA, tx.second.inserted)
     /\ tx.first.toA < tx.second.fromA}

C20_TuplesAsSequence ==
  state = split(doc) =>
    \A tx \in TwoTuples :
      Summary(AtOnce(tx.first, tx.second).tr) = Summary(OneByOne(tx.first, tx.second).tr)

\* C21: after every single-tuple transaction, for every tracker that existed
\* in the original and exists in the current document, contentSameOriginal is
\* true exactly when the current line at its currentPosition equals the
\* original line at its originalPosition.
C21_ContentSameOriginal ==
  last.op = "update" =>
    \A i \in 1..Len(tracker) :
      (existedInOriginal(tracker[i]) /\ existedInCurrent(tracker[i])) =>
        /\ tracker[i].currentPosition < Len(state)
        /\ tracker[i].contentSameOriginal
             <=> (state[tracker[i].currentPosition + 1] = lines[tracker[i].originalPosition + 1])

\* C22: after every change transaction and updateChanges, every change-map
\* entry that carries at least one tag has a key in 0..len(state)-1.
C22_MarkersOnLines ==
  last.op = "update" =>
    \A j \in 1..Len(changes) :
      changes[j].types # <<>> => (changes[j].line >= 0 /\ changes[j].line < Len(state))

\* C23: for a single-tuple transaction touching old lines [fromOld, toOld],
\* every tracker whose currentPosition before the transaction is < fromOld keeps
\* its id, currentPosition and classification, and every tracker whose
\* currentPosition is > toOld keeps its id and classification and has its
\* currentPosition changed by the net line-count difference.
SingleTuple ==
  /\ edits' = edits + 1
  /\ last'.op = "update"
  /\ Len(last'.tuples) = 1

KeepsShifted(t, offset) ==
  \E j \in 1..Len(tracker') :
    /\ tracker'[j].id = t.id
    /\ tracker'[j].currentPosition = t.currentPosition + offset
    /\ Classification(tracker'[j]) = Classification(t)

C23_FrameOfTransaction ==
  [][SingleTuple =>
       LET tu == last'.tuples[1]
           fromOld == lineAt(doc, tu.fromA)
           toOld == lineAt(doc, tu.toA)
           diff == textLines(doc') - textLines(doc)
       IN  \A i \in 1..Len(tracker) :
             LET t == tracker[i]
             IN  /\ (existedInCurrent(t) /\ t.currentPosition < fromOld) => KeepsShifted(t, 0)
                 /\ (existedInCurrent(t) /\ t.currentPosition > toOld) => KeepsShifted(t, diff)]_vars

\* C24: restoreOrAddTracker(n) with shift = true on a duplicate-free
\* collection restores one of the trackers removed at n and creates none, or,
\* when there is none, appends one tracker with originalPosition = -1 and
\* currentPosition = n; every tracker that had currentPosition >= n is one
\* higher, every other tracker still removed at or above n has its
\* removedAtPosition one higher, and no two trackers share a current position.
RemovedAtBefore(pre, n) ==
  {i \in 1..Len(pre) : isStateRemoved(pre[i]) /\ pre[i].removedAtPosition = n}

C24_RestoreOrAdd ==
  (last.op = "restore" /\ DuplicateFree(last.pre)) =>
    LET pre == last.pre
        n == last.arg
        R == RemovedAtBefore(pre, n)
    IN  /\ R # {} =>
             /\ Len(tracker) = Len(pre)
             /\ \E i \in R :
                  /\ tracker[i].currentPosition = n
                  /\ ~isStateRemoved(tracker[i])
                  /\ last.ret = tracker[i].id
                  /\ \A j \in R \ {i} : isStateRemoved(tracker[j])
        /\ R = {} =>
             /\ Len(tracker) = Len(pre) + 1
             /\ tracker[Len(tracker)].originalPosition = -1
             /\ tracker[Len(tracker)].currentPosition = n
             /\ \A i \in 1..Len(pre) : tracker[Len(tracker)].id # pre[i].id
        /\ \A i \in 1..Len(pre) :
             /\ tracker[i].id = pre[i].id
             /\ pre[i].currentPosition >= n => tracker[i].currentPosition = pre[i].currentPosition + 1
             /\ (existedInCurrent(pre[i]) /\ pre[i].currentPosition < n) =>
                  tracker[i].currentPosition = pre[i].currentPosition
             /\ (isStateRemoved(pre[i]) /\ isStateRemoved(tracker[i]) /\ pre[i].removedAtPosition >= n) =>
                  tracker[i].removedAtPosition = pre[i].removedAtPosition + 1
        /\ DuplicateFree(tracker)

\* restoreOrAddTracker(n) restored one of two trackers removed at n and moved
\* the other, together with an existing tracker at or above n
C24_Witness ==
  /\ last.op = "restore" /\ DuplicateFree(last.pre)
  /\ Cardinality(RemovedAtBefore(last.pre, last.arg)) >= 2
  /\ \E i \in 1..Len(last.pre) : last.pre[i].currentPosition >= last.arg
  /\ \E i \in 1..Len(tracker) :
       isStateRemoved(tracker[i]) /\ tracker[i].removedAtPosition = last.arg + 1

\* C25: removeTrackerOrLine(n) with shift = true and a tracker at current
\* position n keeps a tracker of the original in the collection with
\* currentPosition = -1 and removedAtPosition = n and deletes any other;
\* every tracker with currentPosition > n is one lower, every removed tracker
\* with removedAtPosition > n is one lower, all other positions are unchanged.
HasId(tr, id) == \E i \in 1..Len(tr) : tr[i].id = id

C25_RemoveOrLine ==
  (last.op = "remove" /\ last.ret # 0) =>
    LET pre == last.pre
        n == last.arg
        k == IndexOfId(pre, last.ret)
    IN  /\ pre[k].currentPosition = n
        /\ existedInOriginal(pre[k]) =>
             /\ Len(tracker) = Len(pre)
             /\ tracker[IndexOfId(tracker, last.ret)].currentPosition = -1
             /\ tracker[IndexOfId(tracker, last.ret)].removedAtPosition = n
        /\ ~existedInOriginal(pre[k]) =>
             /\ Len(tracker) = Len(pre) - 1
             /\ ~HasId(tracker, last.ret)
        /\ \A i \in 1..Len(pre) : i # k =>
             /\ HasId(tracker, pre[i].id)
             /\ LET t == tracker[IndexOfId(tracker, pre[i].id)]
                IN  /\ t.currentPosition =
                         IF pre[i].currentPosition > n THEN pre[i].currentPosition - 1
                         ELSE pre[i].currentPosition
                    /\ t.removedAtPosition =
                         IF isStateRemoved(pre[i]) /\ pre[i].removedAtPosition > n
                         THEN pre[i].removedAtPosition - 1
                         ELSE pre[i].removedAtPosition

\* removeTrackerOrLine(n) removed a tracker of the original while another
\* tracker was above n and a third was already removed above n
C25_Witness ==
  /\ last.op = "remove" /\ last.ret # 0
  /\ existedInOriginal(last.pre[IndexOfId(last.pre, last.ret)])
  /\ \E i \in 1..Len(last.pre) : last.pre[i].currentPosition > last.arg
  /\ \E i \in 1..Len(last.pre) :
       isStateRemoved(last.pre[i]) /\ last.pre[i].removedAtPosition > last.arg

\* removeTrackerOrLine(n) deleted a tracker that was not in the original
C25_WitnessDeleted ==
  /\ last.op = "remove" /\ last.ret # 0
  /\ ~HasId(tracker, last.ret)
  /\ \E i \in 1..Len(last.pre) : last.pre[i].currentPosition > last.arg

\* C26: on a collection whose existing trackers occupy 0..m-1 without
\* duplicates, moveTo(line, position) with a tracker at `line` and
\* 0 <= position < m, position # line, leaves that tracker at `position` and
\* the collection occupying 0..m-1 without duplicates or gaps: the trackers
\* between the old and the new position move by one toward the vacated slot
\* and all other trackers are unchanged.
ExistingIn(tr) == {i \in 1..Len(tr) : existedInCurrent(tr[i])}

Occupies(tr) ==
  /\ DuplicateFree(tr)
  /\ {tr[i].currentPosition : i \in ExistingIn(tr)} = 0..(Cardinality(ExistingIn(tr)) - 1)

MovedBy(p, line, position) ==
  IF p = line THEN position
  ELSE IF line < position /\ p > line /\ p <= position THEN p - 1
  ELSE IF position < line /\ p >= position /\ p < line THEN p + 1
  ELSE p

C26_MoveTo ==
  ( /\ last.op = "moveTo" /\ last.ret # 0
    /\ Occupies(last.pre)
    /\ last.tuples[2] < Cardinality(ExistingIn(last.pre))
    /\ last.tuples[2] # last.tuples[1] ) =>
    /\ Occupies(tracker)
    /\ Len(tracker) = Len(last.pre)
    /\ \A i \in 1..Len(tracker) :
         /\ tracker[i].id = last.pre[i].id
         /\ existedInCurrent(last.pre[i]) =>
              tracker[i].currentPosition =
                MovedBy(last.pre[i].currentPosition, last.tuples[1], last.tuples[2])
         /\ ~existedInCurrent(last.pre[i]) => tracker[i] = last.pre[i]

\* C27: shiftUp(from, to, k) and shiftDown(from, to, k) change the
\* currentPosition of exactly the trackers whose currentPosition lies in
\* [from, to], both bounds inclusive, for every to >= from >= 0 (to = 0
\* included), and of exactly those with currentPosition >= from when `to` is
\* omitted; shiftUpRemoved / shiftDownRemoved do the same on
\* removedAtPosition; every tracker outside the range keeps all its fields.
InRange(p, from, to) == p >= from /\ (to = Undefined \/ p <= to)

ShiftsExactly(pre, post, from, to) ==
  /\ Len(post) = Len(pre)
  /\ \A i \in 1..Len(pre) :
       IF InRange(pre[i].currentPosition, from, to)
       THEN post[i].currentPosition # pre[i].currentPosition
       ELSE post[i] = pre[i]

ShiftsRemovedExactly(pre, post, from, to) ==
  /\ Len(post) = Len(pre)
  /\ \A i \in 1..Len(pre) :
       IF InRange(pre[i].removedAtPosition, from, to)
       THEN post[i].removedAtPosition # pre[i].removedAtPosition
       ELSE post[i] = pre[i]

C27_ShiftRange ==
  /\ last.op \in {"shiftUp", "shiftDown"} =>
       ShiftsExactly(last.pre, tracker, last.tuples[1], last.tuples[2])
  /\ \A from \in 0..MaxShiftPos : \A to \in ShiftEnds(from, MaxShiftPos) :
       /\ ShiftsRemovedExactly(tracker, shiftUpRemoved(tracker, from, to, 1), from, to)
       /\ ShiftsRemovedExactly(tracker, shiftDownRemoved(tracker, from, to, 1), from, to)

\* C28 as stated: after updateChanges(), for every position p and every tag
\* of removed, added, restored, changed, the change map has the tag at p
\* exactly when some tracker of that classification contributes at p (a
\* removed tracker at its removedAtPosition, any other at its
\* currentPosition); trackers in state ghost or original add no tag, and each
\* tracker adds at most one tag.
Tags == {"removed", "added", "restored", "changed"}

InClass(t, tag) ==
  \/ tag = "removed" /\ isStateRemoved(t)
  \/ tag = "added" /\ isStateAdded(t)
  \/ tag = "restored" /\ isStateRestored(t)
  \/ tag = "changed" /\ isStateChanged(t)

ContributesAt(t) ==
  IF isStateRemoved(t) THEN t.removedAtPosition ELSE t.currentPosition

HasTag(store, p, tag) ==
  \E j \in 1..Len(store) :
    store[j].line = p /\ \E k \in 1..Len(store[j].types) : store[j].types[k] = tag

\* the tags updateChanges() stores for the tracker alone
TagsOf(t) ==
  LET store == updateChanges(<<t>>)
  IN  {tag \in Tags : \E j \in 1..Len(store) : HasTag(store, store[j].line, tag)}

TagsFollowTrackers ==
  \A p \in (-1)..(MaxDocLen + 1) : \A tag \in Tags :
    HasTag(changes, p, tag) <=>
      \E i \in 1..Len(tracker) : InClass(tracker[i], tag) /\ ContributesAt(tracker[i]) = p

LatestOf(tr, R, k) ==
  /\ k \in R
  /\ \A j \in R : tr[k].removedTimeStamp >= tr[j].removedTimeStamp

\* removeTrackerOrLine(n) has just marked a tracker of the original removed
JustRemovedAt(n) ==
  /\ last.op = "remove" /\ last.ret # 0 /\ last.arg = n
  /\ HasId(tracker, last.ret)

C29_FindRemovedAt ==
  \A n \in Positions :
    LET k == findRemovedAt(tracker, n)
        R == RemovedAtBefore(tracker, n)
    IN  /\ R = {} => k = 0
        /\ R # {} => LatestOf(tracker, R, k)
        /\ JustRemovedAt(n) => k = IndexOfId(tracker, last.ret)

\* C30: for a tracker in state removed with removedAtPosition r, a
\* single-tuple transaction whose touched lines (old and new side) are all
\* below r changes its removedAtPosition by exactly the net line-count
\* difference and keeps it removed; one whose touched lines are all above r
\* leaves its removedAtPosition unchanged.
RemovedAtAfter(t, r) ==
  \E j \in 1..Len(tracker') :
    /\ tracker'[j].id = t.id
    /\ isStateRemoved(tracker'[j])
    /\ tracker'[j].removedAtPosition = r

C30_RemovedFrame ==
  [][SingleTuple =>
       LET tu == last'.tuples[1]
           fromOld == lineAt(doc, tu.fromA)
           toOld == lineAt(doc, tu.toA)
           fromNew == lineAt(doc', tu.fromA)
           toNew == lineAt(doc', tu.fromA + Len(tu.inserted))
           diff == textLines(doc') - textLines(doc)
       IN  \A i \in 1..Len(tracker) :
             LET t == tracker[i]
                 r == t.removedAtPosition
             IN  isStateRemoved(t) =>
                   /\ (toOld < r /\ toNew < r) => RemovedAtAfter(t, r + diff)
                   /\ (fromOld > r /\ fromNew > r) => RemovedAtAfter(t, r)]_vars

\* C31: TrackerLine.change(content, pos) modifies no field when the tracker
\* does not currently exist, or when its content already matches the original
\* and the original content is given again; in every other case it sets
\* contentSameOriginal to whether the new content's hash equals the original
\* hash and changeAtPosition to pos (default: currentPosition).
ChangeContents == SeqsUpTo(Letters, 1)

\* the optional position argument: omitted, the first line, the last position
ChangePositions == {Undefined, 0, MaxDocLen}

\* the hash of the line the tracker stands for in the original (null for a
\* tracker of an added line)
OriginalHash(t) ==
  IF existedInOriginal(t) THEN hash(lines[t.originalPosition + 1]) ELSE NullHash

ChangeAsClaimed(t, content, pos) ==
  LET after == TrackerLine_change(t, content, pos, now + 1)
  IN  IF \/ ~existedInCurrent(t)
         \/ t.contentSameOriginal /\ hash(content) = OriginalHash(t)
      THEN after = t
      ELSE /\ after.contentSameOriginal = (hash(content) = OriginalHash(t))
           /\ after.changeAtPosition = (IF pos = Undefined THEN t.currentPosition ELSE pos)

C31_ChangeCases ==
  /\ \A i \in 1..Len(tracker) : \A content \in ChangeContents : \A pos \in ChangePositions :
       ChangeAsClaimed(tracker[i], content, pos)
  /\ last.op = "change" =>
       \A i \in 1..Len(tracker) :
         /\ last.pre[i].id # last.ret => tracker[i] = last.pre[i]
         /\ last.pre[i].id = last.ret =>
              tracker[i] = TrackerLine_change(last.pre[i], last.tuples[1], Undefined, tracker[i].changedTimeStamp)

\* change() has just taken effect on a tracker that was changed before and
\* got its original content again, while another tracker is removed and a
\* third matches the original
C31_Witness ==
  /\ last.op = "change"
  /\ \E i \in 1..Len(tracker) :
       /\ last.pre[i].id = last.ret
       /\ ~last.pre[i].contentSameOriginal
       /\ tracker[i].contentSameOriginal
       /\ tracker[i].changeAtPosition = tracker[i].currentPosition
  /\ \E i \in 1..Len(tracker) : ~existedInCurrent(tracker[i])

\* C32: in every reachable state of a snapshot driven by change
\* transactions, every tracker has exactly one of currentPosition # -1 and
\* removedAtPosition # -1, and removedTimeStamp # -1 exactly when
\* removedAtPosition # -1.
C32_OnePosition ==
  \A i \in 1..Len(tracker) :
    /\ existedInCurrent(tracker[i]) # wasExplicitlyRemoved(tracker[i])
    /\ (tracker[i].removedTimeStamp # -1) <=> wasExplicitlyRemoved(tracker[i])

\* after a transaction a tracker of the original that was removed before is
\* back in the document (restore() set its changeAtPosition, no change() has
\* stamped it) without a removed position or a removal stamp
C32_Witness ==
  /\ last.op = "update" /\ last.handled
  /\ \E i \in 1..Len(tracker) :
       /\ existedInOriginal(tracker[i]) /\ existedInCurrent(tracker[i])
       /\ tracker[i].changeAtPosition # -1 /\ tracker[i].changedTimeStamp = -1
       /\ tracker[i].removedTimeStamp = -1

\* C33: in every reachable state of a snapshot driven by change
\* transactions, no tracker is in state ghost and the size of the collection
\* is the number of original lines plus the number of trackers in state added.
C33_NoGhostNoLeak ==
  /\ \A i \in 1..Len(tracker) : ~isStateGhost(tracker[i])
  /\ Len(tracker) = Len(lines) + Cardinality({i \in 1..Len(tracker) : isStateAdded(tracker[i])})

\* a tracker created for an added line has been deleted again while another
\* tracker of an added line is still in the collection
C33_Witness ==
  /\ last.op = "update" /\ last.handled
  /\ nextId - 1 > Len(tracker)
  /\ \E i \in 1..Len(tracker) : isStateAdded(tracker[i])

\* C34: removeTrackerOrLine(n) and moveTo(n, p) called when no tracker has
\* currentPosition n return none and change no field of any tracker (no shift
\* is performed); findCurrentLine, findOriginalLine and findRemovedAt return
\* none when nothing matches.
NoneAt(tr, n) == \A i \in 1..Len(tr) : tr[i].currentPosition # n

C34_NoneWithoutEffect ==
  /\ (last.op \in {"remove", "moveTo"} /\ NoneAt(last.pre, last.arg)) =>
       /\ last.ret = 0
       /\ tracker = last.pre
  /\ \A n \in Positions :
       /\ NoneAt(tracker, n) => findCurrentLine(tracker, n, Undefined) = 0
       /\ (\A i \in 1..Len(tracker) :
              ~(tracker[i].currentPosition = n /\ existedInOriginal(tracker[i]))) =>
            findOriginalLine(tracker, n, Undefined, TRUE) = 0
       /\ (\A i \in 1..Len(tracker) :
              ~(tracker[i].originalPosition = n)) =>
            findOriginalLine(tracker, n, Undefined, FALSE) = 0
       /\ RemovedAtBefore(tracker, n) = {} => findRemovedAt(tracker, n) = 0

\* moveTo(n, p) has just been called with no tracker at n, in a collection
\* that holds a removed tracker and a tracker in the document
C34_Witness ==
  /\ last.op = "moveTo" /\ NoneAt(last.pre, last.arg)
  /\ \E i \in 1..Len(tracker) : isStateRemoved(tracker[i])
  /\ \E i \in 1..Len(tracker) : existedInCurrent(tracker[i])

\* C35: after TrackerLine.change(content) takes effect on a currently
\* existing tracker its hash equals the hash of the new content: in every
\* reachable state the hash of an existing tracker is the content hash of the
\* line's current text.
C35_HashOfCurrentText ==
  \A i \in 1..Len(tracker) :
    (existedInCurrent(tracker[i]) /\ tracker[i].currentPosition < Len(state)) =>
      tracker[i].hash = hash(state[tracker[i].currentPosition + 1])

\* C36: findCurrentLine(line, to) returns a tracker whose currentPosition
\* equals line and whose originalPosition lies in [0, to] when `to` is given,
\* and returns none when no tracker satisfies both conditions.
CurrentWithOriginalIn(tr, line, to) ==
  {i \in 1..Len(tr) :
     /\ tr[i].currentPosition = line
     /\ tr[i].originalPosition >= 0 /\ tr[i].originalPosition <= to}

C36_FindCurrentLine ==
  \A line \in Positions : \A to \in Positions :
    LET k == findCurrentLine(tracker, line, to)
        M == CurrentWithOriginalIn(tracker, line, to)
    IN  /\ M = {} => k = 0
        /\ M # {} => k \in M

\* C37: TrackerLine.remove(pos) is idempotent: on an already-removed tracker
\* it changes no field, so removedAtPosition and removedTimeStamp keep the
\* values of the first removal and currentPosition stays -1.
C37_RemoveIdempotent ==
  \A i \in 1..Len(tracker) : \A pos \in ChangePositions : \A again \in ChangePositions :
    LET first == TrackerLine_remove(tracker[i], pos, now)
        second == TrackerLine_remove(first, again, now + 1)
    IN  /\ wasExplicitlyRemoved(tracker[i]) => first = tracker[i]
        /\ wasExplicitlyRemoved(first) =>
             /\ second = first
             /\ second.currentPosition = -1

\* removeTrackerOrLine has just marked a tracker removed at a position other
\* than 0: removing it again at 0 a millisecond later would show in
\* removedAtPosition and removedTimeStamp
C37_Witness ==
  /\ last.op = "remove" /\ last.ret # 0
  /\ \E i \in 1..Len(tracker) :
       /\ tracker[i].id = last.ret
       /\ isStateRemoved(tracker[i])
       /\ tracker[i].removedAtPosition > 0
       /\ tracker[i].removedTimeStamp = now

====
